---- MODULE Spec2Model ----
(***************************************************************************)
(* bildir.az scraper (scripts/scraper.py) and chart aggregation            *)
(* (scripts/generate_charts.py) as a state machine.                        *)
(*                                                                         *)
(* Texts that the code parses or rewrites are sequences of one-character   *)
(* strings (<<"4", ",", "5">>); texts that the code only copies or         *)
(* compares are TLA+ strings.  Time is counted in seconds.                 *)
(***************************************************************************)
EXTENDS Naturals, Integers, Sequences, FiniteSets, TLC

VARIABLES
    pc,             \* position of the sequential flow of main()
    caller,         \* which call site the running get() returns to
    url,            \* argument of the running get()
    attempt,        \* loop variable of get()
    soup,           \* the caller's local soup: what its last get() returned
    total,          \* collect_all_slugs: total (0 = not yet assigned)
    page,           \* collect_all_slugs: loop variable page
    all_companies,  \* collect_all_slugs: all_companies
    stubs,          \* main: stubs
    unique_stubs,   \* main: unique_stubs
    idx,            \* main: idx of the detail loop
    detail,         \* main: detail
    csv,            \* the output table data.csv on disk
    inflight,       \* number of HTTP requests sent and not yet answered
    slept,          \* seconds slept since the last HTTP request was sent
    tries,          \* HTTP requests sent by the running get()
    fails,          \* of these, the requests that failed
    fetched,        \* urls get() was called with, in call order
    chart_pc,       \* position of the flow of generate_charts
    rows,           \* generate_charts: the loaded table
    summary,        \* generate_charts: result of build_cat_stats(rows)
    most_reviewed,  \* chart_07_most_reviewed: its lists rated and top
    pct_text,       \* _pct: its argument text
    pct_result,     \* _pct: <<r>> once it has returned r, <<>> before
    doc,            \* parse_company_page: the elements of the fetched page
    fields,         \* parse_company_page: data, as far as it is filled
    parse_pc,       \* parse_company_page: position in the extraction
    parse_i         \* parse_company_page: index of the running for loop

scraperVars == <<pc, caller, url, attempt, soup, total, page, all_companies,
                 stubs, unique_stubs, idx, detail, csv, inflight, slept,
                 tries, fails, fetched>>
chartVars == <<chart_pc, rows, summary, most_reviewed>>
parseVars == <<pct_text, pct_result, doc, fields, parse_pc, parse_i>>
vars == <<pc, caller, url, attempt, soup, total, page, all_companies,
          stubs, unique_stubs, idx, detail, csv, inflight, slept,
          tries, fails, fetched, chart_pc, rows, summary, most_reviewed,
          pct_text, pct_result, doc, fields, parse_pc, parse_i>>

(***************************************************************************)
(* Configuration                                                           *)
(***************************************************************************)
BASE_URL == "https://www.bildir.az"
LIST_URL == BASE_URL \o "/sirketler/"
REQUEST_DELAY == 1
MAX_RETRIES == 3

CSV_FIELDS ==
    << "slug", "name", "category", "founded", "description", "website",
       "facebook", "instagram", "linkedin", "youtube", "twitter",
       "overall_rating", "total_reviews", "response_rate_pct",
       "resolved_complaints_pct", "customer_loyalty_pct",
       "star5_pct", "star4_pct", "star3_pct", "star2_pct", "star1_pct",
       "profile_url" >>

CsvFieldSet == { CSV_FIELDS[i] : i \in 1..Len(CSV_FIELDS) }

None == [kind |-> "None"]

(***************************************************************************)
(* Bounds of the model                                                     *)
(***************************************************************************)
\* Highest page number the pagination of listing page 1 refers to.
MaxPages == 3
\* Most rows of the table the chart generator loads.
MaxRows == 6
\* The table of the most-reviewed chart: at most MaxSingles rows loaded one
\* by one, then at most MaxRuns runs of RunLen equal rows.
MaxSingles == 3
MaxRuns == 2
RunLen == 7
\* Most characters of the text _pct is applied to.
MaxText == 5
\* Most elements of the company page whose extraction is followed step by step.
MaxElems == 3

(***************************************************************************)
(* Small text helpers                                                      *)
(***************************************************************************)
DigitChars == <<"0", "1", "2", "3", "4", "5", "6", "7", "8", "9">>

IsDigit(c) == \E d \in 1..10 : DigitChars[d] = c

DigitVal(c) == (CHOOSE d \in 1..10 : DigitChars[d] = c) - 1

\* str(n) as a sequence of characters
RECURSIVE Digits(_)
Digits(n) ==
    IF n < 10 THEN <<DigitChars[n + 1]>>
    ELSE Digits(n \div 10) \o <<DigitChars[(n % 10) + 1]>>

\* int(txt) for a text of decimal digits
RECURSIVE ParseInt(_)
ParseInt(txt) ==
    IF txt = <<>> THEN 0
    ELSE 10 * ParseInt(SubSeq(txt, 1, Len(txt) - 1)) + DigitVal(txt[Len(txt)])

\* str.isdigit()
StrIsDigit(txt) == txt /= <<>> /\ \A i \in 1..Len(txt) : IsDigit(txt[i])

Max(a, b) == IF a >= b THEN a ELSE b

\* str.strip(chars) on a sequence of tokens
RECURSIVE StripTokens(_, _)
StripTokens(txt, c) ==
    IF txt = <<>> THEN <<>>
    ELSE IF Head(txt) = c THEN StripTokens(Tail(txt), c)
    ELSE IF txt[Len(txt)] = c THEN StripTokens(SubSeq(txt, 1, Len(txt) - 1), c)
    ELSE txt

(***************************************************************************)
(* The site: what a successful request can return                          *)
(*                                                                         *)
(* A listing soup has the company anchors (a.company-wrapper), the href    *)
(* of every pagination anchor and the text of every pagination item.  An   *)
(* anchor's href is a sequence of path segments and "/" separators; the    *)
(* name, category, rating and review count are the texts the selectors of  *)
(* parse_listing_page find in the anchor.  linkNums and itemNums record    *)
(* which page numbers the pagination was written from; the code never      *)
(* reads them.                                                             *)
(***************************************************************************)
Anchor(href, name, category, rating, reviews) ==
    [href |-> href, name |-> name, category |-> category,
     rating |-> rating, reviews |-> reviews]

AnchorA1 == Anchor(<<"/", "a", "/">>, "Alpha", "Bank", "4.5", "12")
AnchorA2 == Anchor(<<"https:", "/", "/", "www.bildir.az", "/", "a">>, "Alpha MMC", "", "", "")
AnchorB1 == Anchor(<<"/", "b", "/">>, "", "Telekom", "", "7")
AnchorC1 == Anchor(<<"c">>, "Gamma", "", "3.9", "")
AnchorNoHref == Anchor(<<>>, "Gamma", "Bank", "3.0", "1")
AnchorSlash == Anchor(<<"/">>, "Delta", "", "", "")

AnchorLists ==
    { <<>>,
      <<AnchorNoHref, AnchorSlash>>,
      <<AnchorA1, AnchorB1>>,
      <<AnchorB1, AnchorA2>>,
      <<AnchorC1, AnchorA1>>,
      <<AnchorA2, AnchorNoHref, AnchorA1>> }

PageEq == <<"p", "a", "g", "e", "=">>

\* href of a pagination link to page n
PageHref(n) == <<"?">> \o PageEq \o Digits(n)
\* the same with a leading zero and a further query parameter
PageHrefPadded(n) == <<"?", "q", "=", "x", "&">> \o PageEq \o <<"0">> \o Digits(n) \o <<"&", "s", "=", "1">>

PageNumbers == 0..MaxPages

Paginations ==
    { [links |-> <<>>, items |-> <<>>, linkNums |-> {}, itemNums |-> {}],
      [links |-> << <<>>, <<"#">> >>, items |-> << <<"N", "e", "x", "t">>, <<".", ".", ".">> >>,
       linkNums |-> {}, itemNums |-> {}] }
    \cup
    { [links |-> <<PageHref(n)>>, items |-> <<Digits(k), <<"x">> >>,
       linkNums |-> {n}, itemNums |-> {k}] :
          n \in PageNumbers, k \in PageNumbers }
    \cup
    { [links |-> <<PageHrefPadded(n), <<"#">>, PageHref(1)>>,
       items |-> << <<" ">> \o Digits(1) \o <<" ">> >>,
       linkNums |-> {n, 1}, itemNums |-> {1}] :
          n \in PageNumbers }

ListingSoups(withPagination) ==
    { [kind |-> "listing", anchors |-> a, links |-> p.links, items |-> p.items,
       linkNums |-> p.linkNums, itemNums |-> p.itemNums] :
          a \in AnchorLists,
          p \in IF withPagination THEN Paginations
                ELSE { [links |-> <<>>, items |-> <<>>, linkNums |-> {}, itemNums |-> {}] } }

(***************************************************************************)
(* Listing page                                                            *)
(***************************************************************************)
\* re.search(r"page=(\d+)", href): the digits of the leftmost match, <<>> if none
PageMatch(href) ==
    LET starts == { i \in 1..Len(href) :
                      /\ i + 5 <= Len(href)
                      /\ SubSeq(href, i, i + 4) = PageEq
                      /\ IsDigit(href[i + 5]) }
    IN  IF starts = {} THEN <<>>
        ELSE LET i == CHOOSE s \in starts : \A t \in starts : s <= t
                 ends == { j \in (i + 5)..Len(href) :
                             \A k \in (i + 5)..j : IsDigit(href[k]) }
                 j == CHOOSE e \in ends : \A f \in ends : f <= e
             IN  SubSeq(href, i + 5, j)

RECURSIVE MaxOverLinks(_, _)
MaxOverLinks(links, max_page) ==
    IF links = <<>> THEN max_page
    ELSE LET m == PageMatch(Head(links))
         IN  MaxOverLinks(Tail(links),
                          IF m /= <<>> THEN Max(max_page, ParseInt(m)) ELSE max_page)

RECURSIVE MaxOverItems(_, _)
MaxOverItems(items, max_page) ==
    IF items = <<>> THEN max_page
    ELSE LET txt == StripTokens(Head(items), " ")
         IN  MaxOverItems(Tail(items),
                          IF StrIsDigit(txt) THEN Max(max_page, ParseInt(txt)) ELSE max_page)

\* without the pass over the pagination items
get_total_pages_links(s) == MaxOverLinks(s.links, 1)

get_total_pages(s) == MaxOverItems(s.items, MaxOverLinks(s.links, 1))

\* href.strip("/").split("/")[-1] if href else ""
SlugOf(href) ==
    LET stripped == StripTokens(href, "/")
    IN  IF stripped = <<>> THEN "" ELSE stripped[Len(stripped)]

RECURSIVE parse_anchors(_)
parse_anchors(anchors) ==
    IF anchors = <<>> THEN <<>>
    ELSE LET anchor == Head(anchors)
             slug == SlugOf(anchor.href)
         IN  IF slug = "" THEN parse_anchors(Tail(anchors))
             ELSE << [slug |-> slug, name |-> anchor.name,
                      category |-> anchor.category,
                      rating_listing |-> anchor.rating,
                      review_count_listing |-> anchor.reviews] >>
                  \o parse_anchors(Tail(anchors))

parse_listing_page(s) == parse_anchors(s.anchors)

(***************************************************************************)
(* Company detail page                                                     *)
(*                                                                         *)
(* A detail soup is described by what the selectors and patterns of        *)
(* parse_company_page extract from it for each field.                      *)
(***************************************************************************)
ExtractedFields == CsvFieldSet \ {"slug", "profile_url"}

Found(name, category, rating, reviews) ==
    [f \in ExtractedFields |->
        CASE f = "name" -> name
          [] f = "category" -> category
          [] f = "overall_rating" -> rating
          [] f = "total_reviews" -> reviews
          [] f = "founded" -> IF rating /= "" THEN "2015" ELSE ""
          [] f = "website" -> IF name /= "" THEN "https://alpha.example" ELSE ""
          [] f = "star5_pct" -> IF reviews /= "" THEN "54.5" ELSE ""
          [] OTHER -> ""]

DetailSoups ==
    { [kind |-> "detail", found |-> Found(p[1], p[2], p[3], p[4])] :
          p \in { <<"", "", "", "">>,
                  <<"Alpha ASC", "Maliyye", "4.2", "120">>,
                  <<"Alpha ASC", "", "4.2", "">>,
                  <<"", "Maliyye", "", "120">>,
                  <<"Alpha ASC", "Maliyye", "", "">>,
                  <<"", "", "4.2", "120">> } }

\* one profile address for every company
CompanyUrlShared(slug) == BASE_URL \o "/" \o "company" \o "/"

CompanyUrl(slug) == BASE_URL \o "/" \o slug \o "/"

\* with the name taken from the slug before the page is looked at
parse_company_page_named(slug, s) ==
    LET data == [f \in CsvFieldSet |->
                    IF f \in {"slug", "name"} THEN slug
                    ELSE IF f = "profile_url" THEN CompanyUrl(slug)
                    ELSE ""]
    IN  IF s = None THEN data
        ELSE [f \in CsvFieldSet |->
                 IF f \in ExtractedFields THEN s.found[f] ELSE data[f]]

parse_company_page(slug, s) ==
    LET data == [f \in CsvFieldSet |->
                    IF f = "slug" THEN slug
                    ELSE IF f = "profile_url" THEN CompanyUrl(slug)
                    ELSE ""]
    IN  IF s = None THEN data
        ELSE [f \in CsvFieldSet |->
                 IF f \in ExtractedFields THEN s.found[f] ELSE data[f]]

(***************************************************************************)
(* main(): deduplication and backfill                                      *)
(***************************************************************************)
\* without seen.add
RECURSIVE DedupFromNoAdd(_, _, _)
DedupFromNoAdd(rest, seen, acc) ==
    IF rest = <<>> THEN acc
    ELSE LET s == Head(rest)
         IN  IF s.slug \notin seen
             THEN DedupFromNoAdd(Tail(rest), seen, Append(acc, s))
             ELSE DedupFromNoAdd(Tail(rest), seen, acc)

RECURSIVE DedupFrom(_, _, _)
DedupFrom(rest, seen, acc) ==
    IF rest = <<>> THEN acc
    ELSE LET s == Head(rest)
         IN  IF s.slug \notin seen
             THEN DedupFrom(Tail(rest), seen \cup {s.slug}, Append(acc, s))
             ELSE DedupFrom(Tail(rest), seen, acc)

Dedup(in) == DedupFrom(in, {}, <<>>)

\* with the listing rating preferred over the page's
BackfillListingRating(d, stub) ==
    [d EXCEPT
        !["name"] = IF @ = "" THEN stub.name ELSE @,
        !["category"] = IF @ = "" THEN stub.category ELSE @,
        !["overall_rating"] = IF stub.rating_listing /= "" THEN stub.rating_listing ELSE @,
        !["total_reviews"] = IF @ = "" THEN stub.review_count_listing ELSE @]

Backfill(d, stub) ==
    [d EXCEPT
        !["name"] = IF @ = "" THEN stub.name ELSE @,
        !["category"] = IF @ = "" THEN stub.category ELSE @,
        !["overall_rating"] = IF @ = "" THEN stub.rating_listing ELSE @,
        !["total_reviews"] = IF @ = "" THEN stub.review_count_listing ELSE @]

(***************************************************************************)
(* The output table                                                        *)
(***************************************************************************)
NoFile == [header |-> <<>>, rows |-> <<>>]

OldRow ==
    [f \in CsvFieldSet |->
        IF f = "slug" THEN "old"
        ELSE IF f = "profile_url" THEN CompanyUrl("old")
        ELSE IF f = "name" THEN "Old" ELSE ""]

OldTable == [header |-> CSV_FIELDS, rows |-> <<OldRow>>]

(***************************************************************************)
(* Initial state                                                           *)
(***************************************************************************)
ScraperInit ==
    /\ pc = "main"
    /\ caller = "none"
    /\ url = ""
    /\ attempt = 0
    /\ soup = None
    /\ total = 0
    /\ page = 0
    /\ all_companies = <<>>
    /\ stubs = <<>>
    /\ unique_stubs = <<>>
    /\ idx = 0
    /\ detail = None
    /\ csv \in {NoFile, OldTable}
    /\ inflight = 0
    /\ slept = 0
    /\ tries = 0
    /\ fails = 0
    /\ fetched = <<>>

ChartInit ==
    /\ chart_pc = "load"
    /\ rows = <<>>
    /\ summary = <<>>
    /\ most_reviewed = [rated |-> <<>>, top |-> <<>>]

ParseInit ==
    /\ pct_text = <<>>
    /\ pct_result = <<>>
    /\ doc = <<>>
    /\ fields = None
    /\ parse_pc = "fetch"
    /\ parse_i = 0

Init == ScraperInit /\ ChartInit /\ ParseInit

(***************************************************************************)
(* get(url)                                                                *)
(***************************************************************************)
\* a call of get(u) from call site c: the loop starts with attempt = 1
CallGet(u, c) ==
    /\ url' = u
    /\ caller' = c
    /\ attempt' = 1
    /\ tries' = 0
    /\ fails' = 0
    /\ fetched' = Append(fetched, u)
    /\ pc' = "request"

\* what the site can answer to the running get()
Answers ==
    IF caller = "list1" THEN ListingSoups(TRUE)
    ELSE IF caller = "list" THEN ListingSoups(FALSE)
    ELSE DetailSoups

\* a backoff that does not grow with the attempt number
BackoffFlat(a) == IF a < MAX_RETRIES THEN REQUEST_DELAY ELSE 0

\* time.sleep in the except branch of get(), after failed attempt number a
Backoff(a) == IF a < MAX_RETRIES THEN REQUEST_DELAY * a ELSE 0

\* session.get(url, timeout=TIMEOUT) is sent
Request ==
    /\ pc = "request"
    /\ pc' = "await"
    /\ inflight' = inflight + 1
    /\ tries' = tries + 1
    /\ slept' = 0
    /\ UNCHANGED <<caller, url, attempt, soup, total, page, all_companies, stubs,
                   unique_stubs, idx, detail, csv, fails, fetched>>
    /\ UNCHANGED <<chartVars, parseVars>>

\* the response arrives with a good status: get() returns the parsed document
ResponseOk ==
    /\ pc = "await"
    /\ \E s \in Answers : soup' = s
    /\ inflight' = inflight - 1
    /\ pc' = "return"
    /\ UNCHANGED <<caller, url, attempt, total, page, all_companies, stubs,
                   unique_stubs, idx, detail, csv, slept, tries, fails, fetched>>
    /\ UNCHANGED <<chartVars, parseVars>>

\* a retry that does not count its attempts
ResponseFailSameAttempt ==
    /\ pc = "await"
    /\ inflight' = inflight - 1
    /\ fails' = fails + 1
    /\ slept' = slept + Backoff(attempt)
    /\ IF attempt < MAX_RETRIES
       THEN /\ attempt' = attempt
            /\ pc' = "request"
            /\ soup' = soup
       ELSE /\ attempt' = attempt
            /\ pc' = "return"
            /\ soup' = None
    /\ UNCHANGED <<caller, url, total, page, all_companies, stubs,
                   unique_stubs, idx, detail, csv, tries, fetched>>
    /\ UNCHANGED <<chartVars, parseVars>>

\* requests.RequestException: warn, back off and retry, or give up with None
ResponseFail ==
    /\ pc = "await"
    /\ inflight' = inflight - 1
    /\ fails' = fails + 1
    /\ slept' = slept + Backoff(attempt)
    /\ IF attempt < MAX_RETRIES
       THEN /\ attempt' = attempt + 1
            /\ pc' = "request"
            /\ soup' = soup
       ELSE /\ attempt' = attempt
            /\ pc' = "return"
            /\ soup' = None
    /\ UNCHANGED <<caller, url, total, page, all_companies, stubs,
                   unique_stubs, idx, detail, csv, tries, fetched>>
    /\ UNCHANGED <<chartVars, parseVars>>

(***************************************************************************)
(* collect_all_slugs()                                                     *)
(***************************************************************************)
ListUrl(p) == LIST_URL \o "?page=" \o ToString(p)

\* a failed page forgets the stubs collected so far
ExtendWithReset(companies, s) ==
    IF s /= None THEN companies \o parse_listing_page(s) ELSE <<>>

\* "if soup: all_companies.extend(parse_listing_page(soup))"
ExtendWith(companies, s) ==
    IF s /= None THEN companies \o parse_listing_page(s) ELSE companies

\* the sleep moved under "if soup:"
ListingPauseIfFetched(s) == IF s /= None THEN REQUEST_DELAY ELSE 0

\* time.sleep after a listing page of the loop, whatever get() returned
ListingPause(s) == REQUEST_DELAY

\* the for loop over range(2, total + 1) reaches page p with the stubs so far,
\* or ends and collect_all_slugs returns them
NextListing(p, last, companies) ==
    IF p <= last
    THEN /\ page' = p
         /\ CallGet(ListUrl(p), "list")
         /\ UNCHANGED <<soup, stubs>>
    ELSE /\ page' = page
         /\ stubs' = companies
         /\ soup' = None
         /\ pc' = "collected"
         /\ UNCHANGED <<caller, url, attempt, tries, fails, fetched>>

\* main() starts: collect_all_slugs() asks for listing page 1
CollectStart ==
    /\ pc = "main"
    /\ CallGet(ListUrl(1), "list1")
    /\ UNCHANGED <<soup, total, page, all_companies, stubs, unique_stubs, idx,
                   detail, csv, inflight, slept>>
    /\ UNCHANGED <<chartVars, parseVars>>

\* get() for page 1 has returned
Page1 ==
    /\ pc = "return"
    /\ caller = "list1"
    /\ IF soup = None
       THEN /\ stubs' = <<>>
            /\ pc' = "collected"
            /\ UNCHANGED <<caller, url, attempt, soup, total, page, all_companies,
                           slept, tries, fails, fetched>>
       ELSE /\ total' = get_total_pages(soup)
            /\ all_companies' = parse_listing_page(soup)
            /\ slept' = slept + REQUEST_DELAY
            /\ NextListing(2, total', all_companies')
    /\ UNCHANGED <<unique_stubs, idx, detail, csv, inflight>>
    /\ UNCHANGED <<chartVars, parseVars>>

\* get() for a page of the loop has returned
PageN ==
    /\ pc = "return"
    /\ caller = "list"
    /\ all_companies' = ExtendWith(all_companies, soup)
    /\ slept' = slept + ListingPause(soup)
    /\ NextListing(page + 1, total, all_companies')
    /\ UNCHANGED <<total, unique_stubs, idx, detail, csv, inflight>>
    /\ UNCHANGED <<chartVars, parseVars>>

(***************************************************************************)
(* main()                                                                  *)
(***************************************************************************)
\* a check that an empty list passes
NoStubsNever(st) == Len(st) < 0

\* "if not stubs"
NoStubs(st) == st = <<>>

\* the row replaces the rows written before
WriteRowOverwrite(table, d) == [table EXCEPT !.rows = <<d>>]

\* writer.writerow(detail); fh.flush()
WriteRow(table, d) == [table EXCEPT !.rows = Append(@, d)]

\* time.sleep at the end of the detail loop body
DetailPause == REQUEST_DELAY

\* an abort that leaves an empty output table behind
DedupStepTruncating ==
    /\ pc = "collected"
    /\ IF NoStubs(stubs)
       THEN /\ pc' = "aborted"
            /\ unique_stubs' = unique_stubs
            /\ csv' = [header |-> CSV_FIELDS, rows |-> <<>>]
       ELSE /\ unique_stubs' = Dedup(stubs)
            /\ pc' = "open"
            /\ csv' = csv
    /\ UNCHANGED <<caller, url, attempt, soup, total, page, all_companies, stubs,
                   idx, detail, inflight, slept, tries, fails, fetched>>
    /\ UNCHANGED <<chartVars, parseVars>>

\* collect_all_slugs() has returned: abort, or remove the duplicates
DedupStep ==
    /\ pc = "collected"
    /\ IF NoStubs(stubs)
       THEN /\ pc' = "aborted"
            /\ unique_stubs' = unique_stubs
       ELSE /\ unique_stubs' = Dedup(stubs)
            /\ pc' = "open"
    /\ UNCHANGED <<caller, url, attempt, soup, total, page, all_companies, stubs,
                   idx, detail, csv, inflight, slept, tries, fails, fetched>>
    /\ UNCHANGED <<chartVars, parseVars>>

\* open(OUTPUT_CSV, "w"), writeheader(), and the first company's page is asked for
OpenCsv ==
    /\ pc = "open"
    /\ csv' = [header |-> CSV_FIELDS, rows |-> <<>>]
    /\ idx' = 1
    /\ CallGet(CompanyUrl(unique_stubs[1].slug), "detail")
    /\ soup' = None
    /\ UNCHANGED <<total, page, all_companies, stubs, unique_stubs, detail,
                   inflight, slept>>
    /\ UNCHANGED <<chartVars, parseVars>>

\* get() for a company page has returned: the rest of parse_company_page
ParseCompany ==
    /\ pc = "return"
    /\ caller = "detail"
    /\ detail' = parse_company_page(unique_stubs[idx].slug, soup)
    /\ pc' = "backfill"
    /\ UNCHANGED <<caller, url, attempt, soup, total, page, all_companies, stubs,
                   unique_stubs, idx, csv, inflight, slept, tries, fails, fetched>>
    /\ UNCHANGED <<chartVars, parseVars>>

\* backfill from the stub, write and flush the row, sleep, go to the next company
BackfillWrite ==
    /\ pc = "backfill"
    /\ detail' = Backfill(detail, unique_stubs[idx])
    /\ csv' = WriteRow(csv, detail')
    /\ slept' = slept + DetailPause
    /\ IF idx < Len(unique_stubs)
       THEN /\ idx' = idx + 1
            /\ CallGet(CompanyUrl(unique_stubs[idx + 1].slug), "detail")
            /\ soup' = None
       ELSE /\ idx' = idx
            /\ pc' = "done"
            /\ UNCHANGED <<caller, url, attempt, soup, tries, fails, fetched>>
    /\ UNCHANGED <<total, page, all_companies, stubs, unique_stubs, inflight>>
    /\ UNCHANGED <<chartVars, parseVars>>

Next ==
    \/ CollectStart
    \/ Request
    \/ ResponseOk
    \/ ResponseFail
    \/ Page1
    \/ PageN
    \/ DedupStep
    \/ OpenCsv
    \/ ParseCompany
    \/ BackfillWrite

Spec == Init /\ [][Next]_vars

\* main() is one sequential flow and session.get has a timeout: a step that
\* can be taken is taken
SpecLive == Spec /\ WF_vars(Next)

(***************************************************************************)
(* Vocabulary of the properties                                            *)
(***************************************************************************)
\* get() runs for, or main() works on, the company pages
InDetailPhase ==
    \/ pc \in {"open", "backfill", "done"}
    \/ pc \in {"request", "await", "return"} /\ caller = "detail"

\* the output table has been opened by this run
TableOpened == InDetailPhase /\ pc /= "open"

\* listing page 1 was retrieved (total is assigned exactly then)
Page1Retrieved == total >= 1

\* positions of st that hold the first stub of their slug
FirstPositions(st) ==
    { i \in DOMAIN st : \A j \in 1..(i - 1) : st[j].slug /= st[i].slug }

\* the position of the n-th distinct slug of st
NthFirst(st, n) ==
    CHOOSE i \in FirstPositions(st) :
        Cardinality({ j \in FirstPositions(st) : j <= i }) = n

SlugsOf(st) == { st[i].slug : i \in DOMAIN st }

IsPrefix(a, b) == Len(a) <= Len(b) /\ SubSeq(b, 1, Len(a)) = a

BackfillSource(f) ==
    CASE f = "name" -> "name"
      [] f = "category" -> "category"
      [] f = "overall_rating" -> "rating_listing"
      [] f = "total_reviews" -> "review_count_listing"

(***************************************************************************)
(* C1: the deduplication of main() keeps, for every slug of its input,     *)
(* exactly one stub, the first one seen with that slug, and the output is  *)
(* in the order of first appearance.                                       *)
(***************************************************************************)
C1_DedupFirstSeen ==
    InDetailPhase =>
        /\ \A i \in DOMAIN stubs :
              Cardinality({ j \in DOMAIN unique_stubs :
                              unique_stubs[j].slug = stubs[i].slug }) = 1
        /\ Len(unique_stubs) = Cardinality(SlugsOf(stubs))
        /\ \A j \in DOMAIN unique_stubs :
              unique_stubs[j] = stubs[NthFirst(stubs, j)]

\* repeated slugs, one with different data, among three distinct slugs
C1_Witness ==
    /\ pc = "open"
    /\ Len(unique_stubs) = 3
    /\ Len(stubs) >= 5
    /\ \E i \in DOMAIN stubs :
          \A j \in DOMAIN unique_stubs : unique_stubs[j] /= stubs[i]

(***************************************************************************)
(* C2: when get() gives up on a company page, parse_company_page returns   *)
(* normally a record with the slug, the profile url BASE_URL/slug/ and     *)
(* every other field empty.                                                *)
(***************************************************************************)
C2_FailedFetchRecord ==
    (pc = "backfill" /\ soup = None) =>
        /\ DOMAIN detail = CsvFieldSet
        /\ detail["slug"] = unique_stubs[idx].slug
        /\ detail["profile_url"] =
              "https://www.bildir.az/" \o unique_stubs[idx].slug \o "/"
        /\ \A f \in CsvFieldSet \ {"slug", "profile_url"} : detail[f] = ""

C2_Witness ==
    /\ pc = "backfill"
    /\ soup = None
    /\ fails = MAX_RETRIES
    /\ unique_stubs[idx].name /= ""

(***************************************************************************)
(* C3: the backfill changes only name, category, overall_rating and        *)
(* total_reviews, each only when the detail value is empty, then to the    *)
(* stub's name, category, rating_listing, review_count_listing.            *)
(***************************************************************************)
C3_BackfillFrame ==
    [][ pc = "backfill" =>
          /\ \A f \in CsvFieldSet :
                detail'[f] =
                    IF f \in {"name", "category", "overall_rating", "total_reviews"}
                       /\ detail[f] = ""
                    THEN unique_stubs[idx][BackfillSource(f)]
                    ELSE detail[f]
          /\ csv'.rows[Len(csv'.rows)] = detail'
      ]_vars

\* a written row with one field taken from the stub and one kept from the page
\* although the stub has a value for it
C3_Witness ==
    /\ pc = "done"
    /\ \E i \in DOMAIN csv.rows :
          /\ csv.rows[i]["name"] = "Alpha"
          /\ unique_stubs[i].name = "Alpha"
          /\ csv.rows[i]["overall_rating"] = "4.2"
          /\ unique_stubs[i].rating_listing = "4.5"
          /\ csv.rows[i]["founded"] = "2015"

(***************************************************************************)
(* C4: one call of get() sends at most 3 requests, returns the document at *)
(* the first request that succeeds and sends nothing after it, returns     *)
(* None only after exactly 3 failed requests, sleeps k * REQUEST_DELAY     *)
(* between failed request k and request k + 1, and does not sleep after    *)
(* the third failure.                                                      *)
(***************************************************************************)
C4_GetContract ==
    /\ [](tries <= 3)
    /\ []((pc = "return" /\ soup /= None) => tries = fails + 1)
    /\ []((pc = "return" /\ soup = None) => (fails = 3 /\ tries = 3 /\ slept = 0))
    /\ [][ tries' = tries + 1 =>
             /\ pc = "request"
             /\ fails = tries
             /\ (fails >= 1 => slept = fails * REQUEST_DELAY)
         ]_vars

\* success at the third request, after backoffs of 1 and 2 seconds
C4_Witness ==
    /\ pc = "return"
    /\ soup /= None
    /\ fails = 2
    /\ tries = 3

(***************************************************************************)
(* C5 as stated: the run aborts only when listing page 1 cannot be         *)
(* retrieved; once page 1 is retrieved the run reaches the detail phase.   *)
(***************************************************************************)
C5_AbortOnlyWithoutPage1 == pc = "aborted" => ~Page1Retrieved

(***************************************************************************)
(* C5 amended: the run aborts exactly when stub collection returns no      *)
(* stub, which is the case when page 1 cannot be retrieved and also when   *)
(* page 1 is retrieved but no retrieved listing page yields a stub; with   *)
(* at least one stub the run enters the detail phase.                      *)
(***************************************************************************)
C5_AbortIffNoStubs ==
    /\ [](pc = "aborted" => stubs = <<>>)
    /\ [](InDetailPhase => (stubs /= <<>> /\ Page1Retrieved))
    /\ []((pc = "collected" /\ ~Page1Retrieved) => stubs = <<>>)
    /\ [][ (pc = "collected" \/ pc' = "aborted") =>
             /\ pc = "collected"
             /\ pc' = IF stubs = <<>> THEN "aborted" ELSE "open"
         ]_vars

\* page 1 and another page were retrieved, and the run aborted
C5_Witness ==
    /\ pc = "aborted"
    /\ Page1Retrieved
    /\ Len(fetched) >= 2

(***************************************************************************)
(* C6: once the table is opened its rows are the records of the first k    *)
(* unique slugs in first-seen order, k the number of companies processed;  *)
(* no slug has two rows, a written row is never changed or removed, and at *)
(* completion every unique slug has its row, whether its fetch failed or   *)
(* not.                                                                    *)
(***************************************************************************)
Processed == IF pc = "done" THEN idx ELSE idx - 1

C6_RowsArePrefix ==
    /\ [](TableOpened =>
            /\ csv.header = CSV_FIELDS
            /\ Len(csv.rows) = Processed
            /\ \A i \in DOMAIN csv.rows :
                  /\ csv.rows[i]["slug"] = stubs[NthFirst(stubs, i)].slug
                  /\ csv.rows[i]["profile_url"] =
                        "https://www.bildir.az/" \o csv.rows[i]["slug"] \o "/"
                  /\ \A j \in DOMAIN csv.rows :
                        csv.rows[i]["slug"] = csv.rows[j]["slug"] => i = j)
    /\ [](pc = "done" => Len(csv.rows) = Cardinality(SlugsOf(stubs)))
    /\ [][ TableOpened =>
             /\ IsPrefix(csv.rows, csv'.rows)
             /\ Len(csv'.rows) <= Len(csv.rows) + 1
         ]_vars

\* three rows from five stubs or more; the last company's fetch failed
C6_Witness ==
    /\ pc = "done"
    /\ Len(csv.rows) = 3
    /\ Len(stubs) >= 5
    /\ soup = None

(***************************************************************************)
(* C7: when get() gives up on a listing page p >= 2, page p adds no stub,  *)
(* the stubs of the earlier pages are kept and the loop goes on with page  *)
(* p + 1, or returns the stubs after page N.                               *)
(***************************************************************************)
C7_FailedPageSkipped ==
    [][ (pc = "return" /\ caller = "list" /\ soup = None) =>
          /\ all_companies' = all_companies
          /\ IF page < total
             THEN /\ pc' = "request"
                  /\ page' = page + 1
                  /\ url' = "https://www.bildir.az/sirketler/?page=" \o ToString(page + 1)
             ELSE /\ pc' = "collected"
                  /\ stubs' = all_companies
      ]_vars

\* page 2 failed, the stubs of page 1 are still there and page 3 is asked for
C7_Witness ==
    /\ pc = "await"
    /\ caller = "list"
    /\ page = 3
    /\ soup = None
    /\ all_companies /= <<>>

(***************************************************************************)
(* C8: every HTTP request but the first of the run is sent after at least  *)
(* REQUEST_DELAY seconds of sleep since the previous request, and never    *)
(* while another request is in flight.                                     *)
(***************************************************************************)
C8_DelayBetweenRequests ==
    /\ [](inflight <= 1)
    /\ [][ inflight' > inflight =>
             /\ inflight = 0
             /\ ((Len(fetched) > 1 \/ tries > 0) => slept >= REQUEST_DELAY)
         ]_vars

\* a retry for the second company, after listing pages and a first company
C8_Witness ==
    /\ pc = "await"
    /\ caller = "detail"
    /\ idx = 2
    /\ tries = 2
    /\ total >= 2

(***************************************************************************)
(* C9: N is the highest page number of the pagination of listing page 1    *)
(* (link targets page=<n> or numeric item texts), 1 if there is none, and  *)
(* get() is called for the listing pages 1, 2, ..., N in this order, once  *)
(* each, and for no other listing page.                                    *)
(***************************************************************************)
ListingFinished == pc \in {"collected", "aborted"} \/ InDetailPhase

LastListing == IF Page1Retrieved THEN total ELSE 1

C9_PagesOneToN ==
    /\ [][ (pc = "return" /\ caller = "list1" /\ soup /= None) =>
             /\ \A n \in soup.linkNums \cup soup.itemNums \cup {1} : total' >= n
             /\ total' \in soup.linkNums \cup soup.itemNums \cup {1}
         ]_vars
    /\ [][ Page1Retrieved => total' = total ]_vars
    /\ [](pc /= "main" =>
            /\ \A i \in DOMAIN fetched :
                  i <= LastListing =>
                     fetched[i] = "https://www.bildir.az/sirketler/?page=" \o ToString(i)
            /\ \A i \in DOMAIN fetched :
                  i > LastListing =>
                     /\ ListingFinished
                     /\ fetched[i] \in { "https://www.bildir.az/" \o sl \o "/" :
                                           sl \in SlugsOf(stubs) }
            /\ (ListingFinished => Len(fetched) >= LastListing))

\* three listing pages asked for, the 3 coming from an item text only
C9_Witness ==
    /\ pc = "return"
    /\ caller = "list"
    /\ page = 3
    /\ Len(fetched) = 3
    /\ soup /= None
    /\ total = 3

(***************************************************************************)
(* generate_charts.py: load(), flt() and build_cat_stats()                 *)
(*                                                                         *)
(* Numbers are counted in hundredths (4.5 is 450).  A float is <<n>>, the  *)
(* None of flt() is <<>>.  The ratings of the table rows are multiples of  *)
(* 0.25, which binary floating point holds exactly, so that round(x, 2)    *)
(* is the rounding of the exact mean, ties to the even hundredth.  The     *)
(* category "Diger" stands for the code's default category name.  A row's  *)
(* val is the number its rating was written from (-1: none); the code      *)
(* never reads it.                                                         *)
(***************************************************************************)
MIN_COMPANIES == 5

TableRow(category, rating, reviews, val) ==
    [category |-> category, overall_rating |-> rating,
     total_reviews |-> reviews, val |-> val]

TableRows ==
    { TableRow("A", <<"4", ".", "5">>, <<"1", "0">>, 450),
      TableRow("A", <<"3">>, <<"9">>, 300),
      TableRow("A", <<>>, <<>>, -1),
      TableRow("", <<" ", "4", ".", "5", " ">>, <<"1", "0">>, 450),
      TableRow("", <<"4", ",", "5">>, <<"x">>, -1),
      TableRow("", <<" ">>, <<>>, -1) }

\* the text is digits with at most one "." among them
IsDecimal(t) ==
    /\ \E i \in DOMAIN t : IsDigit(t[i])
    /\ \A i \in DOMAIN t : IsDigit(t[i]) \/ t[i] = "."
    /\ Cardinality({ i \in DOMAIN t : t[i] = "." }) <= 1

\* float(t) in hundredths, for a decimal text with at most two fraction digits
DecimalValue(t) ==
    LET dots == { i \in DOMAIN t : t[i] = "." }
        dot == IF dots = {} THEN Len(t) + 1 ELSE CHOOSE i \in dots : TRUE
        whole == SubSeq(t, 1, dot - 1)
        frac == SubSeq(t, dot + 1, Len(t))
    IN  100 * ParseInt(whole)
          + (IF Len(frac) = 0 THEN 0
             ELSE IF Len(frac) = 1 THEN 10 * ParseInt(frac)
             ELSE ParseInt(SubSeq(frac, 1, 2)))

\* float(v) if v and v.strip() else None; None on ValueError
flt(v) ==
    LET t == StripTokens(v, " ")
    IN  IF v = <<>> \/ t = <<>> THEN <<>>
        ELSE IF IsDecimal(t) THEN <<DecimalValue(t)>>
        ELSE <<>>

\* r["category"] or the default category
CatName(r) == IF r.category = "" THEN "Diger" ELSE r.category

\* the keys of cats, in insertion order
RECURSIVE CatKeys(_, _)
CatKeys(rs, acc) ==
    IF rs = <<>> THEN acc
    ELSE LET c == CatName(Head(rs))
         IN  CatKeys(Tail(rs),
                     IF \E i \in DOMAIN acc : acc[i] = c THEN acc ELSE Append(acc, c))

\* cats[c]: one item per row of the category
RECURSIVE CatItems(_, _)
CatItems(rs, c) ==
    IF rs = <<>> THEN <<>>
    ELSE LET r == Head(rs)
             reviews == flt(r.total_reviews)
             item == [rating |-> flt(r.overall_rating),
                      reviews |-> IF reviews = <<>> THEN 0 ELSE reviews[1]]
         IN  (IF CatName(r) = c THEN <<item>> ELSE <<>>) \o CatItems(Tail(rs), c)

RECURSIVE SumRatings(_)
SumRatings(items) ==
    IF items = <<>> THEN 0 ELSE Head(items).rating[1] + SumRatings(Tail(items))

RECURSIVE SumReviews(_)
SumReviews(items) ==
    IF items = <<>> THEN 0 ELSE Head(items).reviews + SumReviews(Tail(items))

\* round(num / den, 2) in hundredths, num in hundredths
RoundMean(num, den) ==
    LET q == num \div den
        r == num % den
    IN  IF 2 * r < den THEN q
        ELSE IF 2 * r > den THEN q + 1
        ELSE IF q % 2 = 0 THEN q ELSE q + 1

HasRating(item) == item.rating /= <<>>

RECURSIVE Summarise(_, _, _)
Summarise(keys, rs, min_companies) ==
    IF keys = <<>> THEN <<>>
    ELSE LET c == Head(keys)
             items == CatItems(rs, c)
             with_rating == SelectSeq(items, HasRating)
             rest == Summarise(Tail(keys), rs, min_companies)
         IN  IF Len(items) < min_companies THEN rest
             ELSE IF with_rating = <<>> THEN rest
             ELSE << [category |-> c,
                      count |-> Len(items),
                      avg_rating |-> RoundMean(SumRatings(with_rating), Len(with_rating)),
                      total_reviews |-> SumReviews(items) \div 100] >> \o rest

\* a threshold that leaves out a category of exactly min_companies rows
build_cat_stats_above(rs, min_companies) ==
    Summarise(CatKeys(rs, <<>>), rs, min_companies + 1)

build_cat_stats(rs, min_companies) ==
    Summarise(CatKeys(rs, <<>>), rs, min_companies)

\* load(): one more row of the table is read
LoadRow ==
    /\ chart_pc = "load"
    /\ Len(rows) < MaxRows
    /\ \E r \in TableRows : rows' = Append(rows, r)
    /\ UNCHANGED <<chart_pc, summary, most_reviewed>>
    /\ UNCHANGED <<scraperVars, parseVars>>

\* summary = build_cat_stats(rows, min_companies=5)
BuildCatStats ==
    /\ chart_pc = "load"
    /\ summary' = build_cat_stats(rows, MIN_COMPANIES)
    /\ chart_pc' = "summarised"
    /\ UNCHANGED <<rows, most_reviewed>>
    /\ UNCHANGED <<scraperVars, parseVars>>

ChartNext ==
    \/ LoadRow
    \/ BuildCatStats

\* the chart generator runs on a table that exists
ChartStart == Init /\ csv = OldTable

SpecCharts == ChartStart /\ [][ChartNext]_vars

(***************************************************************************)
(* Vocabulary of the chart properties                                      *)
(***************************************************************************)
RowsOf(c) == { i \in DOMAIN rows : (IF rows[i].category = "" THEN "Diger" ELSE rows[i].category) = c }

RatedRowsOf(c) == { i \in RowsOf(c) : rows[i].val >= 0 }

RECURSIVE SumVal(_)
SumVal(S) ==
    IF S = {} THEN 0
    ELSE LET i == CHOOSE x \in S : TRUE IN rows[i].val + SumVal(S \ {i})

Summarised(c) == \E k \in DOMAIN summary : summary[k].category = c

\* a (hundredths) is num / den rounded to two decimals, a tie to the even one
IsRounded(a, num, den) ==
    /\ 2 * a * den <= 2 * num + den
    /\ 2 * a * den >= 2 * num - den
    /\ (2 * a * den = 2 * num + den \/ 2 * a * den + den = 2 * num) => a % 2 = 0

(***************************************************************************)
(* C10 as stated: build_cat_stats(rows, 5) leaves out every category with  *)
(* fewer than 5 rows and has every category with 5 rows or more, with the  *)
(* mean rating of its rows.                                                *)
(***************************************************************************)
C10_FiveOrMoreIncluded ==
    chart_pc = "summarised" =>
        \A c \in {"A", "Diger"} :
            /\ Cardinality(RowsOf(c)) < 5 => ~Summarised(c)
            /\ Cardinality(RowsOf(c)) >= 5 =>
                  \E k \in DOMAIN summary :
                      /\ summary[k].category = c
                      /\ IsRounded(summary[k].avg_rating, SumVal(RatedRowsOf(c)),
                                   Cardinality(RatedRowsOf(c)))

(***************************************************************************)
(* C10 amended: build_cat_stats(rows, 5) has a category exactly when it    *)
(* has 5 rows or more (exactly 5 included) and at least one of them has a  *)
(* parseable rating; its avg_rating is the mean of the parseable ratings   *)
(* of the category, rounded to two decimals, and its count the number of   *)
(* all its rows.                                                           *)
(***************************************************************************)
C10_FiveOrMoreWithRating ==
    chart_pc = "summarised" =>
        /\ \A c \in {"A", "Diger"} :
              Summarised(c) <=> (Cardinality(RowsOf(c)) >= 5 /\ RatedRowsOf(c) /= {})
        /\ \A k \in DOMAIN summary :
              /\ summary[k].count = Cardinality(RowsOf(summary[k].category))
              /\ IsRounded(summary[k].avg_rating,
                           SumVal(RatedRowsOf(summary[k].category)),
                           Cardinality(RatedRowsOf(summary[k].category)))
              /\ \A j \in DOMAIN summary :
                    summary[j].category = summary[k].category => j = k

\* exactly 5 rows of A, rated 4.5, 3 and unrated; the single other row's
\* category is left out
C10_Witness ==
    /\ chart_pc = "summarised"
    /\ Cardinality(RowsOf("A")) = 5
    /\ Cardinality(RowsOf("Diger")) = 1
    /\ Cardinality(RatedRowsOf("A")) = 4
    /\ SumVal(RatedRowsOf("A")) = 1650
    /\ Len(summary) = 1
    /\ summary[1].category = "A"
    /\ summary[1].avg_rating = 412

(***************************************************************************)
(* generate_charts.py: chart_07_most_reviewed(rows)                        *)
(*                                                                         *)
(* Review counts are in hundredths like the ratings.  A row's count is the *)
(* number its total_reviews was written from (-1: none); the code never    *)
(* reads it.  The table is loaded row by row and then in runs of equal     *)
(* rows, so that more rows than the chart keeps are reached.               *)
(***************************************************************************)
MIN_REVIEWS == 10
TOP_REVIEWED == 15

ReviewRow(name, reviews, count) ==
    [name |-> name, category |-> "A", overall_rating |-> <<"4", ".", "5">>,
     total_reviews |-> reviews, val |-> 450, count |-> count]

SingleRows ==
    { ReviewRow("Nine", <<"9">>, 900),
      ReviewRow("Ten", <<"1", "0">>, 1000),
      ReviewRow("TenPointO", <<" ", "1", "0", ".", "0">>, 1000),
      ReviewRow("TwentyFive", <<"2", "5">>, 2500),
      ReviewRow("Empty", <<>>, -1),
      ReviewRow("Comma", <<"1", ",", "2", "0", "0">>, -1) }

RunRows ==
    { ReviewRow("RunTen", <<"1", "0">>, 1000),
      ReviewRow("RunTwelve", <<"1", "2">>, 1200),
      ReviewRow("RunNine", <<"9", ".", "9", "9">>, 999) }

\* the list comprehension: rows with flt(total_reviews) and flt(total_reviews) >= 10
RECURSIVE MostReviewedRated(_, _)
MostReviewedRated(rs, least) ==
    IF rs = <<>> THEN <<>>
    ELSE LET r == Head(rs)
             reviews == flt(r.total_reviews)
             keep == reviews /= <<>> /\ reviews[1] /= 0 /\ reviews[1] >= 100 * least
         IN  (IF keep
              THEN << [name |-> r.name, reviews |-> reviews[1],
                       rating |-> flt(r.overall_rating)] >>
              ELSE <<>>) \o MostReviewedRated(Tail(rs), least)

\* sorted(rated, key=lambda x: -x[1]): a stable sort, most reviews first
RECURSIVE SortByReviews(_, _)
SortByReviews(rated, acc) ==
    IF rated = <<>> THEN acc
    ELSE LET x == Head(rated)
             before == { i \in DOMAIN acc : acc[i].reviews >= x.reviews }
             n == Cardinality(before)
         IN  SortByReviews(Tail(rated),
                           SubSeq(acc, 1, n) \o <<x>> \o SubSeq(acc, n + 1, Len(acc)))

\* a selection that leaves out a company of exactly MIN_REVIEWS reviews
chart_07_most_reviewed_above(rs) ==
    LET rated == MostReviewedRated(rs, MIN_REVIEWS + 1)
        sorted == SortByReviews(rated, <<>>)
    IN  [rated |-> rated,
         top |-> SubSeq(sorted, 1, IF Len(sorted) < TOP_REVIEWED THEN Len(sorted) ELSE TOP_REVIEWED)]

chart_07_most_reviewed(rs) ==
    LET rated == MostReviewedRated(rs, MIN_REVIEWS)
        sorted == SortByReviews(rated, <<>>)
    IN  [rated |-> rated,
         top |-> SubSeq(sorted, 1, IF Len(sorted) < TOP_REVIEWED THEN Len(sorted) ELSE TOP_REVIEWED)]

\* load(): one more row of the table is read
LoadCompany ==
    /\ chart_pc = "load"
    /\ Len(rows) < MaxSingles
    /\ \E r \in SingleRows : rows' = Append(rows, r)
    /\ UNCHANGED <<chart_pc, summary, most_reviewed>>
    /\ UNCHANGED <<scraperVars, parseVars>>

\* load(): RunLen more rows are read, all alike
LoadRun ==
    /\ chart_pc = "load"
    /\ Len(rows) + RunLen <= MaxSingles + MaxRuns * RunLen
    /\ \E r \in RunRows : rows' = rows \o [i \in 1..RunLen |-> r]
    /\ UNCHANGED <<chart_pc, summary, most_reviewed>>
    /\ UNCHANGED <<scraperVars, parseVars>>

\* chart_07_most_reviewed(rows)
MostReviewed ==
    /\ chart_pc = "load"
    /\ most_reviewed' = chart_07_most_reviewed(rows)
    /\ chart_pc' = "chart07"
    /\ UNCHANGED <<rows, summary>>
    /\ UNCHANGED <<scraperVars, parseVars>>

MostReviewedNext ==
    \/ LoadCompany
    \/ LoadRun
    \/ MostReviewed

SpecMostReviewed == ChartStart /\ [][MostReviewedNext]_vars

(***************************************************************************)
(* C11: the most-reviewed selection has a company exactly when its         *)
(* total_reviews is a number of 10 or more (10 included; fewer, empty and  *)
(* unparseable counts left out), and the chart keeps the 15 selected       *)
(* companies with the most reviews, most reviews first.                    *)
(***************************************************************************)
SelectedRows == { i \in DOMAIN rows : rows[i].count >= 1000 }

\* the k-th selected row
NthSelected(k) ==
    CHOOSE i \in SelectedRows : Cardinality({ j \in SelectedRows : j <= i }) = k

C11_MostReviewed ==
    chart_pc = "chart07" =>
        LET rated == most_reviewed.rated
            top == most_reviewed.top
        IN  /\ Len(rated) = Cardinality(SelectedRows)
            /\ \A k \in DOMAIN rated :
                  /\ rated[k].name = rows[NthSelected(k)].name
                  /\ rated[k].reviews = rows[NthSelected(k)].count
            /\ Len(top) = IF Cardinality(SelectedRows) < 15
                          THEN Cardinality(SelectedRows) ELSE 15
            /\ \A j \in DOMAIN top : \A k \in DOMAIN top :
                  j < k => top[j].reviews >= top[k].reviews
            /\ \A k \in DOMAIN top : \E j \in DOMAIN rated : top[k] = rated[j]
            /\ \A i \in SelectedRows :
                  LET more == Cardinality({ j \in SelectedRows : rows[j].count > rows[i].count })
                      kept == Cardinality({ k \in DOMAIN top : top[k].reviews > rows[i].count })
                  IN  kept = IF more < 15 THEN more ELSE 15

\* 16 companies selected, one with exactly 10 reviews kept, one with 9 left
\* out, and the chart cut to 15
C11_Witness ==
    /\ chart_pc = "chart07"
    /\ Len(most_reviewed.rated) = 16
    /\ Len(most_reviewed.top) = 15
    /\ \E i \in DOMAIN rows : rows[i].name = "Nine"
    /\ \E k \in DOMAIN most_reviewed.top : most_reviewed.top[k].name = "Ten"
    /\ most_reviewed.top[1].name = "TwentyFive"

(***************************************************************************)
(* C16: a company whose page get() gave up on is not asked for again: its  *)
(* address is the argument of one get() call of the run, which sends at    *)
(* most 3 requests, and the row written for it has the slug, the profile   *)
(* url, the stub's name, category, rating and review count in name,        *)
(* category, overall_rating and total_reviews, and every other field empty.*)
(***************************************************************************)
CallsFor(u) == { i \in DOMAIN fetched : fetched[i] = u }

FailedRow(stub) ==
    [f \in CsvFieldSet |->
        CASE f = "slug" -> stub.slug
          [] f = "profile_url" -> "https://www.bildir.az/" \o stub.slug \o "/"
          [] f = "name" -> stub.name
          [] f = "category" -> stub.category
          [] f = "overall_rating" -> stub.rating_listing
          [] f = "total_reviews" -> stub.review_count_listing
          [] OTHER -> ""]

C16_FailedCompanyOnce ==
    /\ [](InDetailPhase =>
            /\ tries <= 3
            /\ \A k \in DOMAIN unique_stubs :
                  Cardinality(CallsFor("https://www.bildir.az/" \o unique_stubs[k].slug \o "/"))
                      = IF k <= idx THEN 1 ELSE 0)
    /\ [][ (pc = "backfill" /\ soup = None) =>
             /\ tries = 3
             /\ csv'.rows = Append(csv.rows, FailedRow(unique_stubs[idx]))
             /\ IF idx < Len(unique_stubs)
                THEN fetched' = Append(fetched, "https://www.bildir.az/"
                                          \o unique_stubs[idx + 1].slug \o "/")
                ELSE fetched' = fetched
         ]_vars
    /\ [][ TableOpened => \A i \in DOMAIN csv.rows : csv'.rows[i] = csv.rows[i] ]_vars

\* the first of three companies failed, its row is in the table with the
\* stub's data, and the run has moved on to the last company
C16_Witness ==
    /\ pc = "return"
    /\ caller = "detail"
    /\ idx = 3
    /\ csv.rows[1]["name"] /= ""
    /\ csv.rows[1]["description"] = ""
    /\ csv.rows[1] = FailedRow(unique_stubs[1])
    /\ csv.rows[2] /= FailedRow(unique_stubs[2])

(***************************************************************************)
(* C18: a run that aborts for want of stubs never opens the output table,  *)
(* which stays as the previous run left it; the table is truncated and     *)
(* given its header only once collection and deduplication are over and    *)
(* before the first company page is asked for.                             *)
(***************************************************************************)
IsCompanyUrl(u) == \E k \in DOMAIN unique_stubs : u = CompanyUrl(unique_stubs[k].slug)

C18_TableOpenedAfterCollection ==
    /\ []((~TableOpened) => csv \in {NoFile, OldTable})
    /\ [][ (~TableOpened') => csv' = csv ]_vars
    /\ [](pc = "aborted" => ~TableOpened)
    /\ [][ (TableOpened' /\ ~TableOpened) =>
             /\ csv' = [header |-> CSV_FIELDS, rows |-> <<>>]
             /\ ListingFinished
             /\ stubs /= <<>>
             /\ unique_stubs = Dedup(stubs)
             /\ \A i \in DOMAIN fetched : ~IsCompanyUrl(fetched[i])
             /\ inflight = 0
             /\ fetched' = Append(fetched, CompanyUrl(unique_stubs[1].slug))
         ]_vars

\* aborted after listing pages were asked for, the previous table in place
C18_Witness ==
    /\ pc = "aborted"
    /\ csv = OldTable
    /\ Page1Retrieved
    /\ Len(fetched) >= 2

(***************************************************************************)
(* C17: whatever requests succeed or fail, a run terminates, aborted for   *)
(* want of stubs or with a row written for every unique slug; with N       *)
(* listing pages and U unique slugs get() is called once for each page and *)
(* once for each slug, in this order, and a call sends at most 3 requests, *)
(* so that at most 3 * (N + U) requests are sent.                          *)
(*                                                                         *)
(* Requests are sent by get() alone; tries counts those of its running     *)
(* call and fetched has one entry for every call, so SentAtMost bounds the *)
(* requests sent so far.  StepsLeft bounds the steps a run can still take: *)
(* it is a natural number that every step decreases.  Under SpecLive the   *)
(* run reaches its end.                                                    *)
(***************************************************************************)
Terminated == pc \in {"done", "aborted"}

SentAtMost == IF fetched = <<>> THEN 0 ELSE 3 * (Len(fetched) - 1) + tries

\* the calls of get() of a run over n listing pages and the unique stubs
CallsOfRun(n) ==
    [i \in 1..(n + Len(unique_stubs)) |->
        IF i <= n THEN LIST_URL \o "?page=" \o ToString(i)
        ELSE BASE_URL \o "/" \o unique_stubs[i - n].slug \o "/"]

\* the slugs the site can list
SiteSlugs ==
    { SlugOf(l[i].href) : <<l, i>> \in { <<m, j>> \in AnchorLists \X (1..3) : j <= Len(m) } } \ {""}

\* steps left in the running call of get() and in the handling of its result
InCall ==
    CASE pc = "request" -> 2 * (MAX_RETRIES - attempt) + 4
      [] pc = "await" -> 2 * (MAX_RETRIES - attempt) + 3
      [] pc = "return" -> 2
      [] pc = "backfill" -> 1
      [] OTHER -> 0

CallSteps == 2 * MAX_RETRIES + 3

StepsLeft ==
    CASE pc = "main" -> (MaxPages + Cardinality(SiteSlugs)) * CallSteps + CallSteps + 3
      [] Terminated -> 0
      [] pc = "collected" -> Cardinality(SiteSlugs) * CallSteps + 2
      [] pc = "open" -> Len(unique_stubs) * CallSteps + 1
      [] InDetailPhase -> (Len(unique_stubs) - idx) * CallSteps + InCall
      [] OTHER ->
            ((IF caller = "list1" THEN MaxPages - 1 ELSE total - page)
                + Cardinality(SiteSlugs)) * CallSteps + InCall + 3

C17_RunTerminates ==
    /\ <>Terminated
    /\ [](StepsLeft \in Nat)
    /\ [][ StepsLeft' < StepsLeft ]_vars
    /\ []((~Terminated) => ENABLED Next)
    /\ [](tries <= 3)
    /\ [][ inflight' > inflight => (inflight' = inflight + 1 /\ tries' = tries + 1) ]_vars
    /\ [][ tries' /= tries =>
             \/ tries' = tries + 1 /\ inflight' = inflight + 1 /\ fetched' = fetched
             \/ tries' = 0 /\ Len(fetched') = Len(fetched) + 1 ]_vars
    /\ [](SentAtMost <= 3 * (LastListing + Len(unique_stubs)))
    /\ [](fetched = SubSeq(CallsOfRun(LastListing), 1, Len(fetched)))
    /\ [](pc = "done" =>
            /\ fetched = CallsOfRun(LastListing)
            /\ csv.header = CSV_FIELDS
            /\ Len(csv.rows) = Len(unique_stubs)
            /\ \A k \in DOMAIN unique_stubs : csv.rows[k]["slug"] = unique_stubs[k].slug)
    /\ [](pc = "aborted" =>
            /\ stubs = <<>>
            /\ unique_stubs = <<>>
            /\ fetched = CallsOfRun(LastListing))

\* a finished run over 3 listing pages and 3 companies whose last call of
\* get() sent 3 requests
C17_Witness ==
    /\ pc = "done"
    /\ LastListing = 3
    /\ Len(unique_stubs) = 3
    /\ Len(fetched) = 6
    /\ tries = 3
    /\ SentAtMost = 18

(***************************************************************************)
(* scraper.py: _pct(text)                                                  *)
(*                                                                         *)
(* A text is the sequence of its characters; a letter stands for any       *)
(* character that is no digit, comma, dot, white space or percent sign.    *)
(* re.search takes the leftmost start at which the pattern matches, and    *)
(* there the longest group for which the rest of the pattern matches.      *)
(***************************************************************************)
PctChars == {"5", "4", ",", ".", "%", " ", "x"}

RECURSIVE TextsUpTo(_)
TextsUpTo(n) ==
    IF n = 0 THEN { <<>> }
    ELSE LET shorter == TextsUpTo(n - 1)
         IN  shorter \cup { Append(t, c) : t \in { u \in shorter : Len(u) = n - 1 }, c \in PctChars }

\* [\d,\.]
NumericChar(c) == IsDigit(c) \/ c = "," \/ c = "."

\* \s
IsSpace(c) == c = " "

\* the lengths of the groups [\d,\.]+ can match from position i
GroupLens(t, i) ==
    { k \in 1..(Len(t) - i + 1) : \A m \in i..(i + k - 1) : NumericChar(t[m]) }

\* \s*% matches from position p
SpacesPercent(t, p) ==
    \E q \in p..Len(t) : t[q] = "%" /\ \A m \in p..(q - 1) : IsSpace(t[m])

MinOf(S) == CHOOSE x \in S : \A y \in S : x <= y
MaxOf(S) == CHOOSE x \in S : \A y \in S : x >= y

\* re.search(r"([\d,\.]+)\s*%", t): group 1, <<>> if there is no match
SearchPercent(t) ==
    LET lens(i) == { k \in GroupLens(t, i) : SpacesPercent(t, i + k) }
        starts == { i \in 1..Len(t) : lens(i) /= {} }
    IN  IF starts = {} THEN <<>>
        ELSE LET i == MinOf(starts) IN SubSeq(t, i, i + MaxOf(lens(i)) - 1)

\* re.search(r"([\d,\.]+)", t): group 1, <<>> if there is no match
SearchNumber(t) ==
    LET starts == { i \in 1..Len(t) : GroupLens(t, i) /= {} }
    IN  IF starts = {} THEN <<>>
        ELSE LET i == MinOf(starts) IN SubSeq(t, i, i + MaxOf(GroupLens(t, i)) - 1)

\* str.replace(",", ".")
CommasToDots(t) == [m \in 1..Len(t) |-> IF t[m] = "," THEN "." ELSE t[m]]

\* without the replacement of the commas
_pct_keeps_commas(t) ==
    IF SearchPercent(t) /= <<>> THEN SearchPercent(t)
    ELSE IF SearchNumber(t) /= <<>> THEN SearchNumber(t)
    ELSE <<>>

_pct(t) ==
    IF SearchPercent(t) /= <<>> THEN CommasToDots(SearchPercent(t))
    ELSE IF SearchNumber(t) /= <<>> THEN CommasToDots(SearchNumber(t))
    ELSE <<>>

\* _pct(pct_text) is called and returns
Pct ==
    /\ pct_result = <<>>
    /\ pct_result' = <<_pct(pct_text)>>
    /\ UNCHANGED <<pct_text, doc, fields, parse_pc, parse_i>>
    /\ UNCHANGED <<scraperVars, chartVars>>

PctNext == Pct

PctStart ==
    /\ ScraperInit
    /\ csv = OldTable
    /\ ChartInit
    /\ pct_text \in TextsUpTo(MaxText)
    /\ pct_result = <<>>
    /\ doc = <<>>
    /\ fields = None
    /\ parse_pc = "fetch"
    /\ parse_i = 0

SpecPct == PctStart /\ [][PctNext]_vars

(***************************************************************************)
(* C14: _pct(text) is the first numeric token of text that white space     *)
(* (possibly none) and a percent sign follow, with its commas turned into  *)
(* dots ("54,5%" gives "54.5"); if no token is so followed, the first      *)
(* numeric token with its commas turned into dots; and the empty string if *)
(* text has no digit, comma or dot.                                        *)
(***************************************************************************)
\* a numeric token: digits, commas and dots with none next to them
IsToken(t, a, b) ==
    /\ a <= b
    /\ \A m \in a..b : IsDigit(t[m]) \/ t[m] \in {",", "."}
    /\ a = 1 \/ ~(IsDigit(t[a - 1]) \/ t[a - 1] \in {",", "."})
    /\ b = Len(t) \/ ~(IsDigit(t[b + 1]) \/ t[b + 1] \in {",", "."})

PercentFollows(t, b) ==
    \E q \in (b + 1)..Len(t) : t[q] = "%" /\ \A m \in (b + 1)..(q - 1) : t[m] = " "

\* r is the token a..b of t with dots for commas
IsNormalised(r, t, a, b) ==
    /\ Len(r) = b - a + 1
    /\ \A m \in 1..Len(r) : r[m] = IF t[a + m - 1] = "," THEN "." ELSE t[a + m - 1]

C14_PctOfText ==
    pct_result /= <<>> =>
        LET t == pct_text
            r == pct_result[1]
            tokens == { ab \in (1..Len(t)) \X (1..Len(t)) : IsToken(t, ab[1], ab[2]) }
            suffixed == { ab \in tokens : PercentFollows(t, ab[2]) }
            first(S) == CHOOSE ab \in S : \A cd \in S : ab[1] <= cd[1]
        IN  IF suffixed /= {}
            THEN IsNormalised(r, t, first(suffixed)[1], first(suffixed)[2])
            ELSE IF tokens /= {}
            THEN IsNormalised(r, t, first(tokens)[1], first(tokens)[2])
            ELSE r = <<>>

C14_Witness ==
    /\ pct_text = <<"5", "4", ",", "5", "%">>
    /\ pct_result = << <<"5", "4", ".", "5">> >>

(***************************************************************************)
(* scraper.py: _text() and the star distribution of parse_company_page()   *)
(*                                                                         *)
(* The fetched page is the sequence of its elements in document order.  An *)
(* element has a tag name, a class, the class or id of an ancestor and its *)
(* text nodes; a text is a sequence of characters and whole words, and a   *)
(* word has no digit, comma, dot, percent sign or white space in it.  Of   *)
(* data, the fields filled by _text and the five star fields are followed; *)
(* the extraction of the other fields does not touch them.                 *)
(***************************************************************************)
Element(tag, cls, anc, strings) ==
    [tag |-> tag, cls |-> cls, anc |-> anc, strings |-> strings]

Selector(tag, cls, anc) == [tag |-> tag, cls |-> cls, anc |-> anc]

NameSelectors ==
    << Selector("h1", "company-name", ""), Selector("h1", "", ""),
       Selector("h1", "", "company-title"), Selector("h1", "", "company-info") >>

CategorySelectors ==
    << Selector("", "company-category", ""), Selector("", "category-name", ""),
       Selector("", "company-type", "") >>

DescriptionSelectors ==
    << Selector("p", "", "company-description"), Selector("p", "", "about-company"),
       Selector("", "company-about", ""), Selector("p", "", "#about"),
       Selector("", "description", "") >>

StarRowSelectors ==
    { Selector("", "star-row", ""), Selector("", "rating-row", ""),
      Selector("", "review-bar", ""), Selector("li", "star-item", "") }

star_keys ==
    << [n |-> "5", col |-> "star5_pct"], [n |-> "4", col |-> "star4_pct"],
       [n |-> "3", col |-> "star3_pct"], [n |-> "2", col |-> "star2_pct"],
       [n |-> "1", col |-> "star1_pct"] >>

StarCols == { star_keys[k].col : k \in 1..5 }

ParsedFields == {"name", "category", "description"} \cup StarCols

ElementPool ==
    { Element("h1", "company-name", "", <<>>),
      Element("h1", "", "company-title", << <<" ", "Acme", " ">> >>),
      Element("div", "company-category", "", << <<" ">> >>),
      Element("span", "category-name", "", << <<"Bank">> >>),
      Element("p", "", "#about", << <<"About">>, <<"us">> >>),
      Element("div", "star-row", "", << <<"5", " ", "ulduz">>, <<"5", "4", ",", "5", "%">> >>),
      Element("li", "star-item", "", << <<"5", "star">>, <<" ", "1", "0", " ", "%">> >>),
      Element("div", "rating-row", "", << <<"4", " ", "ulduz">>, <<"1", "5", "%">> >>),
      Element("div", "review-bar", "", << <<"4", " ", "ulduz", " ", "2", "0", "%">> >>),
      Element("div", "star-row", "", << <<"3", " ", "ulduz">> >>),
      Element("div", "", "", << <<"4", "star", ":", "3", "0", "%">>, <<"5", " ", "ulduz", " ", ",", "7", "%">> >>) }

RECURSIVE DocsUpTo(_)
DocsUpTo(n) ==
    IF n = 0 THEN { <<>> }
    ELSE LET shorter == DocsUpTo(n - 1)
         IN  shorter \cup { Append(d, e) : d \in { u \in shorter : Len(u) = n - 1 },
                                             e \in ElementPool }

\* the element matches the CSS selector
Matches(e, sel) ==
    /\ sel.tag = "" \/ e.tag = sel.tag
    /\ sel.cls = "" \/ e.cls = sel.cls
    /\ sel.anc = "" \/ e.anc = sel.anc

\* soup.select_one(sel): index of the first matching element, 0 for None
select_one(d, sel) ==
    LET hits == { i \in DOMAIN d : Matches(d[i], sel) }
    IN  IF hits = {} THEN 0 ELSE MinOf(hits)

\* soup.select(".star-row, .rating-row, .review-bar, li.star-item")
RECURSIVE select_rows(_)
select_rows(d) ==
    IF d = <<>> THEN <<>>
    ELSE (IF \E sel \in StarRowSelectors : Matches(Head(d), sel) THEN <<Head(d)>> ELSE <<>>)
            \o select_rows(Tail(d))

\* get_text(sep, strip=True) over text nodes: each is stripped, the empty ones
\* are dropped and the others are joined with sep
RECURSIVE JoinStripped(_, _)
JoinStripped(strings, sep) ==
    IF strings = <<>> THEN <<>>
    ELSE LET head == StripTokens(Head(strings), " ")
             rest == JoinStripped(Tail(strings), sep)
         IN  IF head = <<>> THEN rest
             ELSE IF rest = <<>> THEN head
             ELSE head \o sep \o rest

RECURSIVE AllStrings(_)
AllStrings(d) == IF d = <<>> THEN <<>> ELSE Head(d).strings \o AllStrings(Tail(d))

\* soup.get_text(" ", strip=True)
FullText(d) == JoinStripped(AllStrings(d), <<" ">>)

\* _text(soup, *selectors), the selectors from position k on
RECURSIVE TextFrom(_, _, _)
TextFrom(d, sels, k) ==
    IF k > Len(sels) THEN <<>>
    ELSE LET tag == select_one(d, sels[k])
         IN  IF tag /= 0 THEN JoinStripped(d[tag].strings, <<>>)
             ELSE TextFrom(d, sels, k + 1)

_text(d, sels) == TextFrom(d, sels, 1)

\* position in star_keys of the first star_n with str(star_n) in txt, 0 if none
RowTier(txt) ==
    LET hits == { k \in 1..5 : \E m \in DOMAIN txt : txt[m] = star_keys[k].n }
    IN  IF hits = {} THEN 0 ELSE MinOf(hits)

\* a store that does not look at the field first
StoreRowAlways(d, col, pct) ==
    IF pct /= <<>> THEN [d EXCEPT ![col] = pct] ELSE d

\* "if pct and not data[col]: data[col] = pct"
StoreRow(d, col, pct) ==
    IF pct /= <<>> /\ d[col] = <<>> THEN [d EXCEPT ![col] = pct] ELSE d

\* the body of the loop over the star rows, for a row of text txt
star_row(d, txt) ==
    IF RowTier(txt) = 0 THEN d
    ELSE StoreRow(d, star_keys[RowTier(txt)].col, _pct(txt))

\* re.search(rf"{star_n}\s*(?:ulduz|star)[^\d]*?([\d,\.]+)\s*%", t): group 1,
\* <<>> if there is no match.  The lazy [^\d]*? lets the group start at
\* the first place that gives a match.
FallbackSearch(n, t) ==
    LET keyword(i) == MinOf({ p \in (i + 1)..(Len(t) + 1) :
                                p = Len(t) + 1 \/ ~IsSpace(t[p]) })
        groups(i) == { g \in (keyword(i) + 1)..Len(t) :
                          /\ \A m \in (keyword(i) + 1)..(g - 1) : ~IsDigit(t[m])
                          /\ \E k \in GroupLens(t, g) : SpacesPercent(t, g + k) }
        starts == { i \in 1..Len(t) :
                      /\ t[i] = n
                      /\ keyword(i) <= Len(t)
                      /\ t[keyword(i)] \in {"ulduz", "star"}
                      /\ groups(i) /= {} }
    IN  IF starts = {} THEN <<>>
        ELSE LET i == MinOf(starts)
                 g == MinOf(groups(i))
             IN  SubSeq(t, g, g + MaxOf({ k \in GroupLens(t, g) :
                                            SpacesPercent(t, g + k) }) - 1)

\* the body of the fallback loop, for the k-th entry of star_keys
star_fallback(d, k, full_text) ==
    LET col == star_keys[k].col
        m == FallbackSearch(star_keys[k].n, full_text)
    IN  IF d[col] = <<>> /\ m /= <<>>
        THEN [d EXCEPT ![col] = CommasToDots(m)]
        ELSE d

\* after the loop over the rows comes the fallback loop
AfterRow(i, d) ==
    IF i < Len(select_rows(d))
    THEN parse_pc' = "rows" /\ parse_i' = i + 1
    ELSE parse_pc' = "fallback" /\ parse_i' = 1

\* the page is there: data is set up and the _text fields are filled
TextFields ==
    /\ parse_pc = "fetch"
    /\ fields' = [f \in ParsedFields |->
                    CASE f = "name" -> _text(doc, NameSelectors)
                      [] f = "category" -> _text(doc, CategorySelectors)
                      [] f = "description" -> _text(doc, DescriptionSelectors)
                      [] OTHER -> <<>>]
    /\ AfterRow(0, doc)
    /\ UNCHANGED <<pct_text, pct_result, doc>>
    /\ UNCHANGED <<scraperVars, chartVars>>

\* one pass of the loop over the star rows
StarRow ==
    /\ parse_pc = "rows"
    /\ fields' = star_row(fields, JoinStripped(select_rows(doc)[parse_i].strings, <<" ">>))
    /\ AfterRow(parse_i, doc)
    /\ UNCHANGED <<pct_text, pct_result, doc>>
    /\ UNCHANGED <<scraperVars, chartVars>>

\* one pass of the fallback loop; after the last, data is returned
StarFallback ==
    /\ parse_pc = "fallback"
    /\ fields' = star_fallback(fields, parse_i, FullText(doc))
    /\ IF parse_i < 5
       THEN parse_pc' = "fallback" /\ parse_i' = parse_i + 1
       ELSE parse_pc' = "parsed" /\ parse_i' = parse_i
    /\ UNCHANGED <<pct_text, pct_result, doc>>
    /\ UNCHANGED <<scraperVars, chartVars>>

ParseNext ==
    \/ TextFields
    \/ StarRow
    \/ StarFallback

ParseStart ==
    /\ ScraperInit
    /\ csv = OldTable
    /\ ChartInit
    /\ pct_text = <<>>
    /\ pct_result = <<>>
    /\ doc \in DocsUpTo(MaxElems)
    /\ fields = None
    /\ parse_pc = "fetch"
    /\ parse_i = 0

SpecParse == ParseStart /\ [][ParseNext]_vars

(***************************************************************************)
(* C12: the star extraction never overwrites a star field that has a       *)
(* value: a later row does not replace what an earlier row stored, and the *)
(* fallback over the full text writes a field only if the rows left it     *)
(* empty, so that what the rows stored is what parse_company_page returns. *)
(***************************************************************************)
RowText(i) == JoinStripped(select_rows(doc)[i].strings, <<" ">>)

\* what the first row that has a number and belongs to the k-th star field holds
RowValue(k) ==
    LET mine == { i \in DOMAIN select_rows(doc) :
                    RowTier(RowText(i)) = k /\ _pct(RowText(i)) /= <<>> }
    IN  IF mine = {} THEN <<>> ELSE _pct(RowText(MinOf(mine)))

C12_StarFieldNeverOverwritten ==
    /\ [][ parse_pc /= "fetch" =>
             \A col \in StarCols : fields[col] /= <<>> => fields'[col] = fields[col] ]_vars
    /\ [][ parse_pc = "fallback" =>
             \A col \in StarCols :
                 fields'[col] /= fields[col] =>
                     fields[col] = <<>> /\ col = star_keys[parse_i].col ]_vars
    /\ [](parse_pc \in {"fallback", "parsed"} =>
             \A k \in 1..5 : RowValue(k) /= <<>> => fields[star_keys[k].col] = RowValue(k))

\* two rows for five stars and a text the fallback matches for five and for
\* four stars: the first row's value is returned, the fallback fills four
C12_Witness ==
    /\ parse_pc = "parsed"
    /\ Len(select_rows(doc)) = 2
    /\ RowTier(RowText(1)) = 1
    /\ RowTier(RowText(2)) = 1
    /\ _pct(RowText(2)) /= _pct(RowText(1))
    /\ FallbackSearch("5", FullText(doc)) /= <<>>
    /\ fields["star5_pct"] = <<"5", "4", ".", "5">>
    /\ fields["star4_pct"] = <<"3", "0">>

(***************************************************************************)
(* C13: a field filled by _text (name, category, description) gets the     *)
(* text of the first selector of its list, in list order, that yields a    *)
(* non-empty text: a selector matching an element of empty text does not   *)
(* stop the chain, and the field is empty only if no selector yields text. *)
(***************************************************************************)
\* what the k-th selector yields: the text of the first element it matches
Yield(sels, k) ==
    IF select_one(doc, sels[k]) = 0 THEN <<>>
    ELSE JoinStripped(doc[select_one(doc, sels[k])].strings, <<>>)

FirstNonEmpty(sels) ==
    LET yielding == { k \in DOMAIN sels : Yield(sels, k) /= <<>> }
    IN  IF yielding = {} THEN <<>> ELSE Yield(sels, MinOf(yielding))

C13_FirstNonEmptyCandidate ==
    parse_pc /= "fetch" =>
        /\ fields["name"] = FirstNonEmpty(NameSelectors)
        /\ fields["category"] = FirstNonEmpty(CategorySelectors)
        /\ fields["description"] = FirstNonEmpty(DescriptionSelectors)

(***************************************************************************)
(* C15: in the loop over the star rows, a row whose text has the star      *)
(* count text of tier N ("4 ulduz 15%") and a percentage puts the          *)
(* percentage into the field of tier N, unless it has a value, and leaves  *)
(* the fields of the other tiers as they are.                              *)
(***************************************************************************)
\* txt has the digit of the k-th tier, not part of a number, before "ulduz"
\* or "star"
NamesTier(txt, k) ==
    \E m \in DOMAIN txt :
        /\ txt[m] = star_keys[k].n
        /\ m = 1 \/ ~(IsDigit(txt[m - 1]) \/ txt[m - 1] \in {",", "."})
        /\ \E p \in (m + 1)..Len(txt) :
              /\ txt[p] \in {"ulduz", "star"}
              /\ \A q \in (m + 1)..(p - 1) : txt[q] = " "

C15_RowPopulatesItsTier ==
    [][ parse_pc = "rows" =>
          \A k \in 1..5 :
              (NamesTier(RowText(parse_i), k) /\ SearchPercent(RowText(parse_i)) /= <<>>) =>
                  /\ fields'[star_keys[k].col] =
                        IF fields[star_keys[k].col] = <<>>
                        THEN CommasToDots(SearchPercent(RowText(parse_i)))
                        ELSE fields[star_keys[k].col]
                  /\ \A j \in (1..5) \ {k} :
                        fields'[star_keys[j].col] = fields[star_keys[j].col]
      ]_vars

====
